---- MODULE Spec2Model ----
(***************************************************************************)
(* lume-bmad: the cache / name-translation layer of LUMEBmadModel over a   *)
(* Tao engine.  Strings that the code composes or takes apart (variable    *)
(* names, attribute names, the mapping entries) are sequences of           *)
(* characters, so that str.replace, str.join and str.split are computed as *)
(* Python computes them.  Numbers are exact rationals <<num, den>>.        *)
(***************************************************************************)
EXTENDS Integers, Sequences, FiniteSets, TLC

VARIABLES
    control_variables,     \* self._control_variables: the control names, in file order
    control_name_to_bmad,  \* self._control_name_to_bmad: name -> "element attribute"
    output_file,           \* the parsed output-variable file: set of <<element, attribute>>
    read_only_variables,   \* self._read_only_variables: the composed output names
    state,                 \* self._state: the cache
    initial_state,         \* self._initial_state
    has_tao,               \* whether self.tao exists (model.py:53 leaves it unset)
    tao,                   \* the Tao engine
    last,                  \* observation of the last call: its arguments and its outcome
    callers,               \* the position of each caller that is inside _set
    serialized,            \* whether the callers hold one lock around the whole call
    lock                   \* the owner of that lock

vars == << control_variables, control_name_to_bmad, output_file, read_only_variables,
           state, initial_state, has_tao, tao, last, callers, serialized, lock >>

(***************************************************************************)
(* Bounds of the model.                                                    *)
(***************************************************************************)
MaxValues == 2    \* longest mapping passed to set
MaxNames == 2     \* longest list passed to get
MaxDecl == 2      \* most (element, attribute) pairs of a generated output file

(***************************************************************************)
(* Exact rationals.                                                        *)
(***************************************************************************)
Abs(i) == IF i < 0 THEN -i ELSE i

RECURSIVE Gcd(_, _)
Gcd(a, b) == IF b = 0 THEN a ELSE Gcd(b, a % b)

\* the normal form: positive denominator, lowest terms (den # 0)
Rat(n, d) ==
    LET g == Gcd(Abs(n), Abs(d))
        s == IF d < 0 THEN -1 ELSE 1
    IN  << (s * n) \div g, (s * d) \div g >>

Int2Rat(i) == << i, 1 >>
RatMul(p, q) == Rat(p[1] * q[1], p[2] * q[2])
RatDiv(p, q) == Rat(p[1] * q[2], p[2] * q[1])     \* q # 0
RatAdd(p, q) == Rat(p[1] * q[2] + q[1] * p[2], p[2] * q[2])
RatZero == Int2Rat(0)
RatIsZero(p) == p[1] = 0

(***************************************************************************)
(* Python string operations on sequences of characters.                    *)
(***************************************************************************)
\* str.replace(old, new): leftmost, non-overlapping occurrences (old # "")
RECURSIVE Replace(_, _, _)
Replace(s, old, new) ==
    IF Len(s) < Len(old) THEN s
    ELSE IF SubSeq(s, 1, Len(old)) = old
         THEN new \o Replace(SubSeq(s, Len(old) + 1, Len(s)), old, new)
         ELSE << Head(s) >> \o Replace(Tail(s), old, new)

\* sep.join(parts)
RECURSIVE Join(_, _)
Join(sep, parts) ==
    IF parts = << >> THEN << >>
    ELSE IF Len(parts) = 1 THEN parts[1]
    ELSE parts[1] \o sep \o Join(sep, Tail(parts))

\* str.split(sep) for a one-character separator: always at least one piece
RECURSIVE SplitFrom(_, _, _)
SplitFrom(s, sep, piece) ==
    IF s = << >> THEN << piece >>
    ELSE IF Head(s) = sep THEN << piece >> \o SplitFrom(Tail(s), sep, << >>)
    ELSE SplitFrom(Tail(s), sep, Append(piece, Head(s)))

Split(s, sep) == SplitFrom(s, sep, << >>)

EndsWith(s, suffix) ==
    /\ Len(s) >= Len(suffix)
    /\ SubSeq(s, Len(s) - Len(suffix) + 1, Len(s)) = suffix

Range(f) == { f[i] : i \in DOMAIN f }

(***************************************************************************)
(* The strings of the source.                                              *)
(***************************************************************************)
STR_ele == <<"e", "l", "e">>
STR_ele_dot == <<"e", "l", "e", ".">>
STR_dot == <<".">>
STR_underscore == <<"_">>
STR_space == <<" ">>
B1_GRADIENT_LC == <<"b", "1", "_", "g", "r", "a", "d", "i", "e", "n", "t">>
B1_GRADIENT == <<"B", "1", "_", "G", "R", "A", "D", "I", "E", "N", "T">>
ATTR_L == <<"L">>
LATTICE_CALC_ON == <<"l", "a", "t", "t", "i", "c", "e", "_", "c", "a", "l", "c", "_", "o", "n">>

K_ele_name == <<"e", "l", "e", ".", "n", "a", "m", "e">>
K_ele_ix_ele == <<"e", "l", "e", ".", "i", "x", "_", "e", "l", "e">>
K_ele_ix_branch == <<"e", "l", "e", ".", "i", "x", "_", "b", "r", "a", "n", "c", "h">>
K_ele_a_beta == <<"e", "l", "e", ".", "a", ".", "b", "e", "t", "a">>
K_ele_a_alpha == <<"e", "l", "e", ".", "a", ".", "a", "l", "p", "h", "a">>
K_ele_a_eta == <<"e", "l", "e", ".", "a", ".", "e", "t", "a">>
K_ele_a_etap == <<"e", "l", "e", ".", "a", ".", "e", "t", "a", "p">>
K_ele_a_gamma == <<"e", "l", "e", ".", "a", ".", "g", "a", "m", "m", "a">>
K_ele_a_phi == <<"e", "l", "e", ".", "a", ".", "p", "h", "i">>
K_ele_b_beta == <<"e", "l", "e", ".", "b", ".", "b", "e", "t", "a">>
K_ele_b_alpha == <<"e", "l", "e", ".", "b", ".", "a", "l", "p", "h", "a">>
K_ele_b_eta == <<"e", "l", "e", ".", "b", ".", "e", "t", "a">>
K_ele_b_etap == <<"e", "l", "e", ".", "b", ".", "e", "t", "a", "p">>
K_ele_b_gamma == <<"e", "l", "e", ".", "b", ".", "g", "a", "m", "m", "a">>
K_ele_b_phi == <<"e", "l", "e", ".", "b", ".", "p", "h", "i">>
K_ele_x_eta == <<"e", "l", "e", ".", "x", ".", "e", "t", "a">>
K_ele_x_etap == <<"e", "l", "e", ".", "x", ".", "e", "t", "a", "p">>
K_ele_y_eta == <<"e", "l", "e", ".", "y", ".", "e", "t", "a">>
K_ele_y_etap == <<"e", "l", "e", ".", "y", ".", "e", "t", "a", "p">>
K_ele_s == <<"e", "l", "e", ".", "s">>
K_ele_l == <<"e", "l", "e", ".", "l">>
K_ele_e_tot == <<"e", "l", "e", ".", "e", "_", "t", "o", "t">>
K_ele_p0c == <<"e", "l", "e", ".", "p", "0", "c">>
K_ele_mat6 == <<"e", "l", "e", ".", "m", "a", "t", "6">>
K_ele_vec0 == <<"e", "l", "e", ".", "v", "e", "c", "0">>

\* the keys of TAO_OUTPUT_UNITS, in the order the dict lists them
TAO_OUTPUT_UNITS ==
    << K_ele_name, K_ele_ix_ele, K_ele_ix_branch, K_ele_a_beta,
       K_ele_a_alpha, K_ele_a_eta, K_ele_a_etap, K_ele_a_gamma,
       K_ele_a_phi, K_ele_b_beta, K_ele_b_alpha, K_ele_b_eta,
       K_ele_b_etap, K_ele_b_gamma, K_ele_b_phi, K_ele_x_eta,
       K_ele_x_etap, K_ele_y_eta, K_ele_y_etap, K_ele_s,
       K_ele_l, K_ele_e_tot, K_ele_p0c, K_ele_mat6,
       K_ele_vec0 >>

IsOutputKey(attr) == attr \in Range(TAO_OUTPUT_UNITS)

(***************************************************************************)
(* Variable catalog.                                                       *)
(***************************************************************************)
\* OutputVariableName with the element forgotten (name = name + "_")
OutputVariableName_NoElement(ele, attr) ==
    Replace(Replace(attr, STR_ele, << >>), STR_dot, STR_underscore) \o STR_underscore

\* import_output_variables: the name composed for one (element, attribute)
OutputVariableName(ele, attr) ==
    ele \o Replace(Replace(attr, STR_ele, << >>), STR_dot, STR_underscore)
        \o STR_underscore

\* import_output_variables: out_dict's keys; TAO_OUTPUT_UNITS[attr] raises
\* KeyError for an attribute without a unit
import_output_variables(file) ==
    IF \E p \in file : ~IsOutputKey(p[2])
    THEN [ok |-> FALSE, out_dict |-> {}]
    ELSE [ok |-> TRUE, out_dict |-> { OutputVariableName(p[1], p[2]) : p \in file }]

\* the dict keys a sequence of insertions leaves, in insertion order
RECURSIVE DictKeys(_, _)
DictKeys(names, seen) ==
    IF names = << >> THEN << >>
    ELSE IF Head(names) \in seen THEN DictKeys(Tail(names), seen)
    ELSE << Head(names) >> \o DictKeys(Tail(names), seen \cup {Head(names)})

\* import_control_variables: var_dict's keys and control_name_to_bmad
import_control_variables(quads) ==
    LET pvs == [i \in DOMAIN quads |-> quads[i].pvname]
        lastOf(n) == CHOOSE i \in DOMAIN quads :
                        /\ quads[i].pvname = n
                        /\ \A j \in DOMAIN quads : quads[j].pvname = n => j <= i
    IN  [ var_dict |-> DictKeys(pvs, {}),
          control_name_to_bmad |->
              [ n \in Range(pvs) |->
                  Join(STR_space, << quads[lastOf(n)].bmad_name,
                                     quads[lastOf(n)].bmad_attribute >>) ] ]

(***************************************************************************)
(* The Tao engine, as the code uses it: tao.cmd, tao.cmds,                 *)
(* tao.ele_gen_attribs and tao.lat_list.  attribs are the element          *)
(* attributes as set; computed is what the last lattice calculation saw.   *)
(***************************************************************************)
SetEle(e, a, v) ==
    [what |-> "ele", ele |-> e, attr |-> a, value |-> v, logic |-> ""]
SetGlobal(l) ==
    [what |-> "global", ele |-> << >>, attr |-> LATTICE_CALC_ON,
     value |-> RatZero, logic |-> l]

LatticeCalcOff == SetGlobal("F")    \* "set global lattice_calc_on = F"
LatticeCalcOn == SetGlobal("T")     \* "set global lattice_calc_on = T"

\* Tao reads attribute names without regard to case; ele_gen_attribs
\* reports them in upper case
UpperChar(c) ==
    CASE c = "b" -> "B" [] c = "g" -> "G" [] c = "r" -> "R" [] c = "a" -> "A"
      [] c = "d" -> "D" [] c = "i" -> "I" [] c = "e" -> "E" [] c = "n" -> "N"
      [] c = "t" -> "T" [] c = "l" -> "L" [] OTHER -> c
Upper(s) == [i \in 1..Len(s) |-> UpperChar(s[i])]

\* tao.cmd(c): one directive; a set on an element or attribute the lattice
\* does not have is rejected.  recalc counts the lattice calculations it runs.
TaoCmd(t, c) ==
    IF c.what = "global"
    THEN [ ok |-> TRUE,
           tao |-> [t EXCEPT !.lattice_calc_on = (c.logic = "T"),
                             !.computed = IF c.logic = "T" THEN t.attribs ELSE @],
           recalc |-> IF c.logic = "T" THEN 1 ELSE 0 ]
    ELSE IF \/ c.ele \notin DOMAIN t.attribs
            \/ Upper(c.attr) \notin DOMAIN t.attribs[c.ele]
    THEN [ok |-> FALSE, tao |-> t, recalc |-> 0]
    ELSE LET a == [t.attribs EXCEPT ![c.ele][Upper(c.attr)] = c.value]
         IN  [ ok |-> TRUE,
               tao |-> [t EXCEPT !.attribs = a,
                                 !.computed = IF t.lattice_calc_on THEN a ELSE @],
               recalc |-> IF t.lattice_calc_on THEN 1 ELSE 0 ]

\* tao.cmds(cmds): each command in order, raising at the first one rejected.
\* sent lists what reached the engine, with the recompute flag it met.
RECURSIVE TaoCmds(_, _)
TaoCmds(t, cmds) ==
    IF cmds = << >>
    THEN [ok |-> TRUE, tao |-> t, sent |-> << >>, recalcs |-> 0]
    ELSE LET r == TaoCmd(t, Head(cmds))
             s == << [cmd |-> Head(cmds), calc_on |-> t.lattice_calc_on] >>
         IN  IF ~r.ok
             THEN [ok |-> FALSE, tao |-> r.tao, sent |-> s, recalcs |-> r.recalc]
             ELSE LET rest == TaoCmds(r.tao, Tail(cmds))
                  IN  [ ok |-> rest.ok, tao |-> rest.tao, sent |-> s \o rest.sent,
                        recalcs |-> r.recalc + rest.recalcs ]

\* tao.ele_gen_attribs(element)
ele_gen_attribs(t, element) ==
    IF element \in DOMAIN t.attribs
    THEN [ok |-> TRUE, ele_attr |-> t.attribs[element]]
    ELSE [ok |-> FALSE, ele_attr |-> << >>]

\* the lattice the engine was started on: its elements in order
ELE_Q1 == <<"Q", "1">>
ELE_M0 == <<"M", "0">>          \* a marker: zero length
ELE_QX == <<"Q", "X">>          \* named by a control file, absent from the lattice
ATTR_TILT == <<"T", "I", "L", "T">>

LatticeElements == << ELE_Q1, ELE_M0 >>

GenAttribs(b1, l, tilt) ==
    (B1_GRADIENT :> b1) @@ (ATTR_L :> l) @@ (ATTR_TILT :> tilt)

InitialAttribs ==
    (ELE_Q1 :> GenAttribs(Rat(3, 10), Int2Rat(2), RatZero))
    @@ (ELE_M0 :> GenAttribs(RatZero, RatZero, RatZero))

InitialTao ==
    [lattice_calc_on |-> TRUE, attribs |-> InitialAttribs, computed |-> InitialAttribs]

\* the optics at element i: what the last lattice calculation accumulated
\* over elements 1..i, so every element downstream of a change moves
RECURSIVE Focusing(_, _)
Focusing(computed, i) ==
    IF i = 0 THEN RatZero
    ELSE RatAdd(Focusing(computed, i - 1),
                RatMul(computed[LatticeElements[i]][B1_GRADIENT],
                       computed[LatticeElements[i]][ATTR_L]))

RECURSIVE Position(_, _)
Position(attribs, i) ==
    IF i = 0 THEN RatZero
    ELSE RatAdd(Position(attribs, i - 1), attribs[LatticeElements[i]][ATTR_L])

\* tao.lat_list("*", key): one value per lattice element, in lattice order
lat_list(t, key) ==
    [ i \in DOMAIN LatticeElements |->
        CASE key = K_ele_name -> LatticeElements[i]
          [] key = K_ele_ix_ele -> Int2Rat(i)
          [] key = K_ele_ix_branch -> RatZero
          [] key = K_ele_l -> t.attribs[LatticeElements[i]][ATTR_L]
          [] key = K_ele_s -> Position(t.attribs, i)
          [] OTHER -> Focusing(t.computed, i) ]

(***************************************************************************)
(* SLAC2BmadTransformer.                                                   *)
(***************************************************************************)
\* element, attr = self.control_name_to_bmad[name].split(" ")
LookupBmad(c2b, name) ==
    IF name \notin DOMAIN c2b THEN [ok |-> FALSE, err |-> "KeyError", parts |-> << >>]
    ELSE LET parts == Split(c2b[name], " ")
         IN  IF Len(parts) # 2
             THEN [ok |-> FALSE, err |-> "ValueError", parts |-> << >>]
             ELSE [ok |-> TRUE, err |-> "", parts |-> parts]

\* get_tao_property with the factor 10 of the unit conversion forgotten
get_tao_property_NoFactor(t, c2b, control_name) ==
    LET m == LookupBmad(c2b, control_name)
    IN  IF ~m.ok THEN [ok |-> FALSE, err |-> m.err, value |-> RatZero]
        ELSE LET q == ele_gen_attribs(t, m.parts[1])
             IN  IF ~q.ok THEN [ok |-> FALSE, err |-> "TaoError", value |-> RatZero]
                 ELSE IF m.parts[2] = B1_GRADIENT_LC
                 THEN [ ok |-> TRUE, err |-> "",
                        value |-> RatMul(q.ele_attr[B1_GRADIENT], q.ele_attr[ATTR_L]) ]
                 ELSE IF m.parts[2] \notin DOMAIN q.ele_attr
                 THEN [ok |-> FALSE, err |-> "KeyError", value |-> RatZero]
                 ELSE [ok |-> TRUE, err |-> "", value |-> q.ele_attr[m.parts[2]]]

\* get_tao_property(tao, control_name): the value in control-system units
get_tao_property(t, c2b, control_name) ==
    LET m == LookupBmad(c2b, control_name)
    IN  IF ~m.ok THEN [ok |-> FALSE, err |-> m.err, value |-> RatZero]
        ELSE LET element == m.parts[1]
                 attr == m.parts[2]
                 q == ele_gen_attribs(t, element)
             IN  IF ~q.ok THEN [ok |-> FALSE, err |-> "TaoError", value |-> RatZero]
                 ELSE IF attr = B1_GRADIENT_LC
                 THEN [ ok |-> TRUE, err |-> "",
                        value |-> RatMul(RatMul(q.ele_attr[B1_GRADIENT],
                                                q.ele_attr[ATTR_L]), Int2Rat(10)) ]
                 ELSE IF attr \notin DOMAIN q.ele_attr
                 THEN [ok |-> FALSE, err |-> "KeyError", value |-> RatZero]
                 ELSE [ok |-> TRUE, err |-> "", value |-> q.ele_attr[attr]]

\* TaoCommandFor with the factor 10 of the unit conversion forgotten
TaoCommandFor_NoFactor(t, c2b, name, value) ==
    LET m == LookupBmad(c2b, name)
    IN  IF ~m.ok THEN [ok |-> FALSE, err |-> m.err, cmd |-> LatticeCalcOff]
        ELSE IF m.parts[2] # B1_GRADIENT_LC
        THEN [ok |-> TRUE, err |-> "", cmd |-> SetEle(m.parts[1], m.parts[2], value)]
        ELSE LET q == ele_gen_attribs(t, m.parts[1])
             IN  IF ~q.ok
                 THEN [ok |-> FALSE, err |-> "TaoError", cmd |-> LatticeCalcOff]
                 ELSE IF RatIsZero(q.ele_attr[ATTR_L])
                 THEN [ok |-> FALSE, err |-> "ZeroDivisionError", cmd |-> LatticeCalcOff]
                 ELSE [ ok |-> TRUE, err |-> "",
                        cmd |-> SetEle(m.parts[1], m.parts[2],
                                       RatDiv(value, q.ele_attr[ATTR_L])) ]

\* get_tao_commands: the command of one (name, value) pair
TaoCommandFor(t, c2b, name, value) ==
    LET m == LookupBmad(c2b, name)
    IN  IF ~m.ok THEN [ok |-> FALSE, err |-> m.err, cmd |-> LatticeCalcOff]
        ELSE LET element == m.parts[1]
                 attr == m.parts[2]
             IN  IF attr # B1_GRADIENT_LC
                 THEN [ok |-> TRUE, err |-> "", cmd |-> SetEle(element, attr, value)]
                 ELSE LET q == ele_gen_attribs(t, element)
                      IN  IF ~q.ok
                          THEN [ok |-> FALSE, err |-> "TaoError", cmd |-> LatticeCalcOff]
                          ELSE IF RatIsZero(q.ele_attr[ATTR_L])
                          THEN [ ok |-> FALSE, err |-> "ZeroDivisionError",
                                 cmd |-> LatticeCalcOff ]
                          ELSE [ ok |-> TRUE, err |-> "",
                                 cmd |-> SetEle(element, attr,
                                           RatDiv(value, RatMul(q.ele_attr[ATTR_L],
                                                                Int2Rat(10)))) ]

\* get_tao_commands inserting each command at the front of the list
RECURSIVE get_tao_commands_Reversed(_, _, _)
get_tao_commands_Reversed(t, c2b, pvdata) ==
    IF pvdata = << >> THEN [ok |-> TRUE, err |-> "", tao_cmds |-> << >>]
    ELSE LET c == TaoCommandFor(t, c2b, pvdata[1][1], pvdata[1][2])
         IN  IF ~c.ok THEN [ok |-> FALSE, err |-> c.err, tao_cmds |-> << >>]
             ELSE LET rest == get_tao_commands_Reversed(t, c2b, Tail(pvdata))
                  IN  IF ~rest.ok THEN rest
                      ELSE [ ok |-> TRUE, err |-> "",
                             tao_cmds |-> rest.tao_cmds \o << c.cmd >> ]

\* get_tao_commands passing over the names that have no mapping entry
RECURSIVE get_tao_commands_SkipUnknown(_, _, _)
get_tao_commands_SkipUnknown(t, c2b, pvdata) ==
    IF pvdata = << >> THEN [ok |-> TRUE, err |-> "", tao_cmds |-> << >>]
    ELSE IF pvdata[1][1] \notin DOMAIN c2b
    THEN get_tao_commands_SkipUnknown(t, c2b, Tail(pvdata))
    ELSE LET c == TaoCommandFor(t, c2b, pvdata[1][1], pvdata[1][2])
         IN  IF ~c.ok THEN [ok |-> FALSE, err |-> c.err, tao_cmds |-> << >>]
             ELSE LET rest == get_tao_commands_SkipUnknown(t, c2b, Tail(pvdata))
                  IN  IF ~rest.ok THEN rest
                      ELSE [ ok |-> TRUE, err |-> "",
                             tao_cmds |-> << c.cmd >> \o rest.tao_cmds ]

\* get_tao_commands(tao, pvdata, beam_path): pvdata is the dict's items in order
RECURSIVE get_tao_commands(_, _, _)
get_tao_commands(t, c2b, pvdata) ==
    IF pvdata = << >> THEN [ok |-> TRUE, err |-> "", tao_cmds |-> << >>]
    ELSE LET c == TaoCommandFor(t, c2b, pvdata[1][1], pvdata[1][2])
         IN  IF ~c.ok THEN [ok |-> FALSE, err |-> c.err, tao_cmds |-> << >>]
             ELSE LET rest == get_tao_commands(t, c2b, Tail(pvdata))
                  IN  IF ~rest.ok THEN rest
                      ELSE [ ok |-> TRUE, err |-> "",
                             tao_cmds |-> << c.cmd >> \o rest.tao_cmds ]

(***************************************************************************)
(* evaluate_tao and get_tao_lat_list_outputs.                              *)
(***************************************************************************)
\* evaluate_tao without the directive that disables the lattice calculation
evaluate_tao_NoDisable(t, tao_cmds) ==
    LET run == TaoCmds(t, tao_cmds)
    IN  IF ~run.ok
        THEN [ok |-> FALSE, tao |-> run.tao, sent |-> run.sent, recalcs |-> run.recalcs]
        ELSE LET on == TaoCmd(run.tao, LatticeCalcOn)
             IN  [ ok |-> TRUE, tao |-> on.tao,
                   sent |-> run.sent \o << [cmd |-> LatticeCalcOn,
                                            calc_on |-> run.tao.lattice_calc_on] >>,
                   recalcs |-> run.recalcs + on.recalc ]

\* evaluate_tao with the enabling directive in a finally clause
evaluate_tao_Finally(t, tao_cmds) ==
    LET off == TaoCmd(t, LatticeCalcOff)
        sentOff == << [cmd |-> LatticeCalcOff, calc_on |-> t.lattice_calc_on] >>
        run == TaoCmds(off.tao, tao_cmds)
        on == TaoCmd(run.tao, LatticeCalcOn)
    IN  [ ok |-> run.ok, tao |-> on.tao,
          sent |-> sentOff \o run.sent
                   \o << [cmd |-> LatticeCalcOn,
                          calc_on |-> run.tao.lattice_calc_on] >>,
          recalcs |-> off.recalc + run.recalcs + on.recalc ]

\* evaluate_tao(tao, tao_cmds): an exception of tao.cmds leaves before the
\* last directive
evaluate_tao(t, tao_cmds) ==
    LET off == TaoCmd(t, LatticeCalcOff)
        sentOff == << [cmd |-> LatticeCalcOff, calc_on |-> t.lattice_calc_on] >>
        run == TaoCmds(off.tao, tao_cmds)
    IN  IF ~run.ok
        THEN [ ok |-> FALSE, tao |-> run.tao, sent |-> sentOff \o run.sent,
               recalcs |-> off.recalc + run.recalcs ]
        ELSE LET on == TaoCmd(run.tao, LatticeCalcOn)
             IN  [ ok |-> TRUE, tao |-> on.tao,
                   sent |-> sentOff \o run.sent
                            \o << [cmd |-> LatticeCalcOn,
                                   calc_on |-> run.tao.lattice_calc_on] >>,
                   recalcs |-> off.recalc + run.recalcs + on.recalc ]

\* get_tao_lat_list_outputs: the name composed for element ele and key k
LatListName(ele, k) ==
    ele \o Replace(Replace(k, STR_ele_dot, << >>), STR_dot, STR_underscore)
        \o STR_underscore

\* the names of the lattice, composed once
LatListNames ==
    [ e \in Range(LatticeElements) |->
        [ k \in Range(TAO_OUTPUT_UNITS) |-> LatListName(e, k) ] ]

\* the dict comprehension of one key k: the values zipped against the element
\* names; a later element of the same name overwrites an earlier one
KeyOutputs(lattice_elements, output, k) ==
    LET n == IF Len(lattice_elements) < Len(output)
             THEN Len(lattice_elements) ELSE Len(output)
        name(i) == LatListNames[lattice_elements[i]][k]
    IN  [ x \in { name(i) : i \in 1..n } |->
            output[CHOOSE i \in 1..n :
                      /\ name(i) = x
                      /\ \A j \in 1..n : name(j) = x => j <= i] ]

\* outputs.update(...) for the keys j, j+1, ...: a later key's entries win
RECURSIVE LatListOutputs(_, _, _)
LatListOutputs(t, lattice_elements, j) ==
    IF j > Len(TAO_OUTPUT_UNITS) THEN [x \in {} |-> RatZero]
    ELSE LatListOutputs(t, lattice_elements, j + 1)
         @@ KeyOutputs(lattice_elements, lat_list(t, TAO_OUTPUT_UNITS[j]),
                       TAO_OUTPUT_UNITS[j])

EmptyDict == [x \in {} |-> RatZero]

get_tao_lat_list_outputs(t) ==
    LatListOutputs(t, lat_list(t, K_ele_name), 1)

(***************************************************************************)
(* LUMEBmadModel.                                                          *)
(***************************************************************************)
\* self._variables = {**control, **read_only}: the keys of supported_variables
supported_variables == Range(control_variables) \cup read_only_variables

\* d.update(u): the entries of u win
DictUpdate(d, u) == u @@ d

\* update_state, the loop over the control names: self._state[name] is
\* assigned in place, name by name, until a query raises
RECURSIVE UpdateControls(_, _, _, _)
UpdateControls(st, t, c2b, names) ==
    IF names = << >> THEN [ok |-> TRUE, err |-> "", state |-> st]
    ELSE LET p == get_tao_property(t, c2b, Head(names))
         IN  IF ~p.ok THEN [ok |-> FALSE, err |-> p.err, state |-> st]
             ELSE UpdateControls(DictUpdate(st, Head(names) :> p.value),
                                 t, c2b, Tail(names))

\* update_state
update_state(st, t, c2b, names) ==
    LET c == UpdateControls(st, t, c2b, names)
    IN  IF ~c.ok THEN c
        ELSE [ ok |-> TRUE, err |-> "",
               state |-> DictUpdate(c.state, get_tao_lat_list_outputs(t)) ]

\* _get written with self._state.get(name, 0)
get_WithDefault(st, names) ==
    [ ok |-> TRUE, err |-> "",
      out |-> [ n \in Range(names) |-> IF n \in DOMAIN st THEN st[n] ELSE RatZero ] ]

\* _get(names): {name: self._state[name] for name in names}
get_(st, names) ==
    IF \E i \in DOMAIN names : names[i] \notin DOMAIN st
    THEN [ok |-> FALSE, err |-> "KeyError", out |-> EmptyDict]
    ELSE [ ok |-> TRUE, err |-> "",
           out |-> [ n \in Range(names) |-> st[n] ] ]

NoEval == [sent |-> << >>, recalcs |-> 0]

\* _set with update_state called before evaluate_tao instead of after it
set_RefreshFirst(attached, t, c2b, names, st, values) ==
    IF ~attached
    THEN [ ok |-> FALSE, err |-> "AttributeError", stage |-> "tao", tao |-> t,
           state |-> st, tao_cmds |-> << >>, eval |-> NoEval ]
    ELSE LET b == get_tao_commands(t, c2b, values)
         IN  IF ~b.ok
             THEN [ ok |-> FALSE, err |-> b.err, stage |-> "build", tao |-> t,
                    state |-> st, tao_cmds |-> << >>, eval |-> NoEval ]
             ELSE LET u == update_state(st, t, c2b, names)
                  IN  IF ~u.ok
                      THEN [ ok |-> FALSE, err |-> u.err, stage |-> "refresh",
                             tao |-> t, state |-> u.state,
                             tao_cmds |-> b.tao_cmds, eval |-> NoEval ]
                      ELSE LET e == evaluate_tao(t, b.tao_cmds)
                           IN  [ ok |-> e.ok, err |-> IF e.ok THEN "" ELSE "TaoError",
                                 stage |-> IF e.ok THEN "" ELSE "evaluate",
                                 tao |-> e.tao, state |-> u.state,
                                 tao_cmds |-> b.tao_cmds,
                                 eval |-> [sent |-> e.sent, recalcs |-> e.recalcs] ]

\* _set(values): self.tao is read first; then the commands are built,
\* evaluated, and the cache refreshed
set_(attached, t, c2b, names, st, values) ==
    IF ~attached
    THEN [ ok |-> FALSE, err |-> "AttributeError", stage |-> "tao", tao |-> t,
           state |-> st, tao_cmds |-> << >>, eval |-> NoEval ]
    ELSE LET b == get_tao_commands(t, c2b, values)
         IN  IF ~b.ok
             THEN [ ok |-> FALSE, err |-> b.err, stage |-> "build", tao |-> t,
                    state |-> st, tao_cmds |-> << >>, eval |-> NoEval ]
             ELSE LET e == evaluate_tao(t, b.tao_cmds)
                      ev == [sent |-> e.sent, recalcs |-> e.recalcs]
                  IN  IF ~e.ok
                      THEN [ ok |-> FALSE, err |-> "TaoError", stage |-> "evaluate",
                             tao |-> e.tao, state |-> st,
                             tao_cmds |-> b.tao_cmds, eval |-> ev ]
                      ELSE LET u == update_state(st, e.tao, c2b, names)
                           IN  [ ok |-> u.ok, err |-> u.err,
                                 stage |-> IF u.ok THEN "" ELSE "refresh",
                                 tao |-> e.tao, state |-> u.state,
                                 tao_cmds |-> b.tao_cmds, eval |-> ev ]

\* the items of a dict as reset hands them to set
RECURSIVE Items(_)
Items(d) ==
    IF DOMAIN d = {} THEN << >>
    ELSE LET k == CHOOSE x \in DOMAIN d : TRUE
         IN  << << k, d[k] >> >> \o Items([ x \in DOMAIN d \ {k} |-> d[x] ])

(***************************************************************************)
(* Inputs.                                                                 *)
(***************************************************************************)
QUAD_IN20_511 == <<"Q", "U", "A", "D", ":", "I", "N", "2", "0", ":", "5", "1", "1">>
QUAD_IN20_525 == <<"Q", "U", "A", "D", ":", "I", "N", "2", "0", ":", "5", "2", "5">>
UNKNOWN_VAR == <<"U", "N", "K", "N", "O", "W", "N", "_", "V", "A", "R">>

Quad(pv, ele, attr) == [pvname |-> pv, bmad_name |-> ele, bmad_attribute |-> attr]

\* control files: the magnet of the scenario, and a second one on the
\* zero-length marker or on an element the lattice does not have
ControlFiles ==
    { << Quad(QUAD_IN20_511, ELE_Q1, B1_GRADIENT_LC), Quad(QUAD_IN20_525, e, a) >> :
        e \in {ELE_M0, ELE_QX}, a \in {B1_GRADIENT_LC, ATTR_TILT} }

OutputFiles ==
    { { << ELE_Q1, K_ele_a_beta >>, << ELE_M0, K_ele_ix_ele >> } }

Values == { Rat(1, 2), Int2Rat(-1) }

\* sequences over S without repetition, of length at most n
DistinctSeqs(S, n) ==
    { s \in UNION { [1..k -> S] : k \in 0..n } :
        \A i, j \in DOMAIN s : i # j => s[i] # s[j] }

SetNames == Range(control_variables) \cup {UNKNOWN_VAR}
GetNames == supported_variables \cup {UNKNOWN_VAR}

\* the mappings set may be given: distinct names, in any order
PvData ==
    UNION { { [ i \in DOMAIN ns |-> << ns[i], vs[i] >> ] :
                vs \in [DOMAIN ns -> Values] } :
            ns \in DistinctSeqs(SetNames, MaxValues) }

NameLists == UNION { [1..n -> GetNames] : n \in 0..MaxNames }

(***************************************************************************)
(* The state machine.                                                      *)
(***************************************************************************)
\* the callers of the concurrent runs, and a caller outside _set
Callers == {"A", "B"}
Idle == [pc |-> "idle", tao_cmds |-> << >>]
FREE == "free"

Call(op, ok, err, stage, values, names, out, tao_cmds, eval) ==
    [ op |-> op, ok |-> ok, err |-> err, stage |-> stage, values |-> values,
      names |-> names, out |-> out, tao_cmds |-> tao_cmds,
      sent |-> eval.sent, recalcs |-> eval.recalcs ]

NoCall == Call("init", TRUE, "", "", << >>, << >>, EmptyDict, << >>, NoEval)

\* __init__: the catalog is loaded, the cache starts empty (update_state is
\* not called), the snapshot is a copy of it; no engine is attached
Construct(control_file, out_file) ==
    LET c == import_control_variables(control_file)
        o == import_output_variables(out_file)
    IN  /\ o.ok
        /\ control_variables = c.var_dict
        /\ control_name_to_bmad = c.control_name_to_bmad
        /\ output_file = out_file
        /\ read_only_variables = o.out_dict
        /\ state = EmptyDict
        /\ initial_state = EmptyDict
        /\ has_tao = FALSE
        /\ tao = InitialTao
        /\ last = NoCall
        /\ callers = [id \in Callers |-> Idle]
        /\ serialized = FALSE
        /\ lock = FREE

Init == \E cf \in ControlFiles, f \in OutputFiles : Construct(cf, f)

\* the owner assigns model.tao
AttachTao ==
    /\ ~has_tao
    /\ has_tao' = TRUE
    /\ UNCHANGED << control_variables, control_name_to_bmad, output_file,
                    read_only_variables, state, initial_state, tao, last,
                    callers, serialized, lock >>

Get(names) ==
    LET r == get_(state, names)
    IN  /\ last' = Call("get", r.ok, r.err, "", << >>, names, r.out, << >>, NoEval)
        /\ UNCHANGED << control_variables, control_name_to_bmad, output_file,
                        read_only_variables, state, initial_state, has_tao, tao,
                        callers, serialized, lock >>

Set(values) ==
    \E r \in { set_(has_tao, tao, control_name_to_bmad, control_variables, state,
                    values) } :
        /\ state' = r.state
        /\ tao' = r.tao
        /\ last' = Call("set", r.ok, r.err, r.stage, values, << >>, EmptyDict,
                        r.tao_cmds, r.eval)
        /\ UNCHANGED << control_variables, control_name_to_bmad, output_file,
                        read_only_variables, initial_state, has_tao,
                        callers, serialized, lock >>

\* reset(): self.set(self._initial_state)
Reset ==
    \E values \in { Items(initial_state) } :
    \E r \in { set_(has_tao, tao, control_name_to_bmad, control_variables, state,
                    values) } :
        /\ state' = r.state
        /\ tao' = r.tao
        /\ last' = Call("reset", r.ok, r.err, r.stage, values, << >>, EmptyDict,
                        r.tao_cmds, r.eval)
        /\ UNCHANGED << control_variables, control_name_to_bmad, output_file,
                        read_only_variables, initial_state, has_tao,
                        callers, serialized, lock >>

Next ==
    \/ AttachTao
    \/ \E names \in NameLists : Get(names)
    \/ \E values \in PvData : Set(values)
    \/ Reset

Spec == Init /\ [][Next]_vars

(***************************************************************************)
(* Properties.                                                             *)
(***************************************************************************)
IsSetCall == last.op \in {"set", "reset"}
\* evaluate_tao was called and the engine raised no error in it
EvaluateReturned == IsSetCall /\ last.stage \in {"", "refresh"}
SentCmds == [ i \in DOMAIN last.sent |-> last.sent[i].cmd ]

\* the mapping entry of a control name, as (element, attribute)
ElementOf(n) == Split(control_name_to_bmad[n], " ")[1]
AttributeOf(n) == Split(control_name_to_bmad[n], " ")[2]
LengthOf(e) == tao.attribs[e][ATTR_L]
\* the set-attribute command the spec describes for one (name, value) pair
ExpectedCommand(n, v) ==
    SetEle(ElementOf(n), AttributeOf(n),
           IF AttributeOf(n) = B1_GRADIENT_LC
           THEN RatDiv(v, RatMul(LengthOf(ElementOf(n)), Int2Rat(10)))
           ELSE v)
\* the length query of a b1_gradient entry succeeds with a nonzero length
Convertible(n) ==
    AttributeOf(n) = B1_GRADIENT_LC =>
        /\ ElementOf(n) \in Range(LatticeElements)
        /\ ~RatIsZero(LengthOf(ElementOf(n)))

\* C1: whenever evaluate_tao ran without an engine error, the engine received
\* exactly "lattice_calc_on = F", the commands in list order,
\* "lattice_calc_on = T"; every command of the list met a disabled recompute
\* flag; exactly one lattice calculation ran; the flag is enabled afterwards.
C1_EvaluateBracket ==
    EvaluateReturned =>
        /\ SentCmds = << LatticeCalcOff >> \o last.tao_cmds \o << LatticeCalcOn >>
        /\ \A i \in 2..(Len(last.sent) - 1) : ~last.sent[i].calc_on
        /\ last.recalcs = 1
        /\ tao.lattice_calc_on

C1_Witness ==
    /\ last.op = "set" /\ last.ok
    /\ Len(last.tao_cmds) = 2
    /\ Len(last.sent) = 4

\* C2: set({n: v}) for n mapped to (e, b1_gradient) with length L # 0 builds
\* exactly one command, "set ele e b1_gradient = v / (L * 10)", and once set
\* has returned, get([n]) yields v.
C2_SetThenGet ==
    \A n \in Range(control_variables), v \in Values :
        ( /\ last.op = "set" /\ last.stage # "tao"
          /\ last.values = << << n, v >> >>
          /\ AttributeOf(n) = B1_GRADIENT_LC
          /\ ElementOf(n) \in Range(LatticeElements)
          /\ ~RatIsZero(LengthOf(ElementOf(n))) )
        => /\ last.tao_cmds
                = << SetEle(ElementOf(n), B1_GRADIENT_LC,
                            RatDiv(v, RatMul(LengthOf(ElementOf(n)), Int2Rat(10)))) >>
           /\ last.ok => /\ get_(state, << n >>).ok
                         /\ get_(state, << n >>).out[n] = v

C2_Witness ==
    /\ last.op = "set" /\ last.ok
    /\ last.values = << << QUAD_IN20_511, Rat(1, 2) >> >>
    /\ last.tao_cmds = << SetEle(ELE_Q1, B1_GRADIENT_LC, Rat(1, 40)) >>
    /\ state[QUAD_IN20_511] = Rat(1, 2)

\* C3 as stated: whenever every name of values has a mapping entry,
\* get_tao_commands returns len(values) commands, the i-th being the command
\* of the i-th pair.
C3_AllMappedReturns ==
    ( /\ last.op = "set" /\ last.stage # "tao"
      /\ \A i \in DOMAIN last.values : last.values[i][1] \in DOMAIN control_name_to_bmad )
    => /\ last.stage # "build"
       /\ Len(last.tao_cmds) = Len(last.values)

\* C3 amended: get_tao_commands returns exactly when every name has a mapping
\* entry and every b1_gradient entry's element is in the lattice with a
\* nonzero length; it then returns len(values) commands, the i-th being the
\* set-attribute command of the i-th pair in input order, the value divided
\* by L * 10 for b1_gradient and unchanged otherwise.
C3_CommandsInOrder ==
    (last.op = "set" /\ last.stage # "tao") =>
        /\ last.stage # "build"
             <=> \A i \in DOMAIN last.values :
                    /\ last.values[i][1] \in DOMAIN control_name_to_bmad
                    /\ Convertible(last.values[i][1])
        /\ last.stage # "build" =>
             /\ Len(last.tao_cmds) = Len(last.values)
             /\ \A i \in DOMAIN last.values :
                    last.tao_cmds[i]
                        = ExpectedCommand(last.values[i][1], last.values[i][2])

C3_Witness ==
    /\ last.op = "set" /\ last.ok
    /\ Len(last.values) = 2
    /\ last.values[1][1] = QUAD_IN20_525 /\ last.values[2][1] = QUAD_IN20_511
    /\ last.tao_cmds[1].attr = ATTR_TILT /\ last.tao_cmds[1].value = last.values[1][2]
    /\ last.tao_cmds[2].attr = B1_GRADIENT_LC /\ last.tao_cmds[2].value # last.values[2][2]

\* C4: a get step changes neither the cache, the snapshot nor the engine; it
\* fails with KeyError exactly when a requested name is not in the cache, and
\* otherwise returns the cached value of each requested name and nothing else.
C4_GetIsPureRead ==
    [][ last'.op = "get" =>
          /\ state' = state /\ initial_state' = initial_state /\ tao' = tao
          /\ last'.ok <=> \A i \in DOMAIN last'.names : last'.names[i] \in DOMAIN state
          /\ ~last'.ok => last'.err = "KeyError" /\ DOMAIN last'.out = {}
          /\ last'.ok =>
               /\ DOMAIN last'.out = Range(last'.names)
               /\ \A n \in DOMAIN last'.out : last'.out[n] = state[n] ]_vars

C4_Witness ==
    /\ last.op = "get" /\ ~last.ok /\ last.err = "KeyError"
    /\ last.names = << QUAD_IN20_511, UNKNOWN_VAR >>
    /\ QUAD_IN20_511 \in DOMAIN state

\* the value of a control variable in the engine the model was constructed on
ValueAtConstruction(n) == get_tao_property(InitialTao, control_name_to_bmad, n).value

\* C5: after a reset that returned, the cache holds for every control name the
\* value it had in the engine at construction.
C5_ResetRestoresSnapshot ==
    (last.op = "reset" /\ last.ok) =>
        \A n \in Range(control_variables) :
            /\ n \in DOMAIN state
            /\ state[n] = ValueAtConstruction(n)

\* C6: before any call, the cache holds a value for every supported variable
\* and the snapshot equals the cache.
C6_CachePopulatedAtConstruction ==
    last.op = "init" =>
        /\ \A n \in supported_variables : n \in DOMAIN state
        /\ initial_state = state

IndexOf(e) == CHOOSE i \in DOMAIN LatticeElements : LatticeElements[i] = e

\* C7: after a set that returned, the cache holds, under the catalog name of
\* every declared output variable whose element is in the lattice, the
\* engine's current value of that attribute at that element.
C7_OutputsUnderCatalogNames ==
    (last.op = "set" /\ last.ok) =>
        \A p \in output_file :
            p[1] \in Range(LatticeElements) =>
                /\ OutputVariableName(p[1], p[2]) \in DOMAIN state
                /\ state[OutputVariableName(p[1], p[2])]
                       = lat_list(tao, p[2])[IndexOf(p[1])]

\* C8: every key of the cache is a key of supported_variables.
C8_CacheKeysInCatalog == DOMAIN state \subseteq supported_variables

\* C9: a set (or reset) that fails leaves the cache as it was before the call.
C9_FailedSetKeepsCache ==
    [][ (last'.op \in {"set", "reset"} /\ ~last'.ok) => state' = state ]_vars

(***************************************************************************)
(* Catalog construction on generated output-variable files.                *)
(***************************************************************************)
K_ele_beta == <<"e", "l", "e", ".", "b", "e", "t", "a">>     \* no unit is known for it

\* element names that end like the names other pairs compose
CatElements ==
    { <<"Q">>, <<"Q", "_", "a">>, <<"Q", "_", "i", "x">>, <<"Q", "_", "e">> }

CatAttributes ==
    { K_ele_s, K_ele_l, K_ele_name, K_ele_ix_ele, K_ele_a_eta, K_ele_a_etap,
      K_ele_x_eta, K_ele_e_tot, K_ele_beta }

CatPairs == CatElements \X CatAttributes

\* the subsets of S with at most k elements
RECURSIVE SubsetsUpTo(_, _)
SubsetsUpTo(S, k) ==
    IF k = 0 THEN { {} }
    ELSE LET smaller == SubsetsUpTo(S, k - 1)
         IN  smaller \cup { f \cup {x} : f \in smaller, x \in S }

CatInit ==
    \E cf \in ControlFiles, f \in SubsetsUpTo(CatPairs, MaxDecl) :
        LET c == import_control_variables(cf)
        IN  /\ control_variables = c.var_dict
            /\ control_name_to_bmad = c.control_name_to_bmad
            /\ output_file = f
            /\ read_only_variables = {}
            /\ state = EmptyDict
            /\ initial_state = EmptyDict
            /\ has_tao = FALSE
            /\ tao = InitialTao
            /\ last = NoCall
            /\ callers = [id \in Callers |-> Idle]
            /\ serialized = FALSE
            /\ lock = FREE

\* self._read_only_variables = import_output_variables(output_variable_file)
LoadOutputVariables ==
    /\ last.op = "init"
    /\ \E o \in { import_output_variables(output_file) } :
         /\ read_only_variables' = o.out_dict
         /\ last' = Call("load", o.ok, IF o.ok THEN "" ELSE "KeyError", "", << >>,
                         << >>, EmptyDict, << >>, NoEval)
    /\ UNCHANGED << control_variables, control_name_to_bmad, output_file, state,
                    initial_state, has_tao, tao, callers, serialized, lock >>

CatNext == LoadOutputVariables

CatSpec == CatInit /\ [][CatNext]_vars

C11_RoundTrip ==
    \A n \in Range(control_variables) :
        ( /\ ElementOf(n) \in Range(LatticeElements)
          /\ Convertible(n) )
        => /\ \A v \in Values :
                LET c == TaoCommandFor(tao, control_name_to_bmad, n, v)
                IN  /\ c.ok
                    /\ TaoCmd(tao, c.cmd).ok
                    /\ get_tao_property(TaoCmd(tao, c.cmd).tao,
                                        control_name_to_bmad, n).value = v
                    /\ AttributeOf(n) # B1_GRADIENT_LC => c.cmd.value = v
           /\ LET r == get_tao_property(tao, control_name_to_bmad, n)
                  x == tao.attribs[ElementOf(n)][Upper(AttributeOf(n))]
              IN  /\ r.ok
                  /\ TaoCommandFor(tao, control_name_to_bmad, n, r.value).cmd.value = x
                  /\ AttributeOf(n) # B1_GRADIENT_LC => r.value = x

C11_Witness ==
    /\ has_tao
    /\ AttributeOf(QUAD_IN20_525) = ATTR_TILT
    /\ ElementOf(QUAD_IN20_525) = ELE_M0
    /\ tao.attribs[ELE_Q1][B1_GRADIENT] = Rat(1, 40)
    /\ tao.attribs[ELE_M0][ATTR_TILT] = Int2Rat(-1)
    /\ QUAD_IN20_511 \in DOMAIN state /\ state[QUAD_IN20_511] = Rat(1, 2)

\* C12: in the state a set(values) call on the engine leaves, whether it
\* returned or raised, calling set(values) again leaves the cache as the
\* first call left it.
C12_SetIdempotent ==
    (last.op = "set" /\ last.stage # "tao") =>
        set_(has_tao, tao, control_name_to_bmad, control_variables, state,
             last.values).state = state

C12_Witness ==
    /\ last.op = "set" /\ last.ok
    /\ Len(last.values) = 2
    /\ \A i \in DOMAIN last.values : state[last.values[i][1]] = last.values[i][2]
    /\ tao.attribs # InitialAttribs

\* the positions of a mapping whose name has no mapping entry
Unmapped(values) ==
    { i \in DOMAIN values : values[i][1] \notin DOMAIN control_name_to_bmad }
\* the value conversion of every name before the first unmapped one succeeds
ReachesUnmapped(values) ==
    \A i \in Unmapped(values) : \A j \in 1..(i - 1) :
        j \notin Unmapped(values) => Convertible(values[j][1])
\* get_property and get_commands raise KeyError on the names that have no
\* mapping entry, the read-only output names among them
UnmappedLookupFails ==
    \A n \in {UNKNOWN_VAR} \cup read_only_variables :
        /\ n \notin DOMAIN control_name_to_bmad
        /\ get_tao_property(tao, control_name_to_bmad, n).err = "KeyError"
        /\ \A v \in Values :
               get_tao_commands(tao, control_name_to_bmad, << <<n, v>> >>).err
                   = "KeyError"

\* C13 as stated: a set whose mapping holds a name without mapping entry
\* raises the lookup error, sends nothing to the engine, leaves the engine
\* and the cache unchanged, and the recompute flag is enabled.
C13_UnmappedSetAsStated ==
    [][ ( /\ has_tao
          /\ last'.op = "set"
          /\ Unmapped(last'.values) # {} )
        => /\ ~last'.ok /\ last'.err = "KeyError"
           /\ last'.sent = << >>
           /\ tao' = tao /\ state' = state
           /\ tao'.lattice_calc_on ]_vars

\* C13: get_property and get_commands raise KeyError on a name without
\* mapping entry; a set whose mapping holds such a name raises before any
\* directive reaches the engine and leaves the engine's attributes, its
\* recompute flag and the cache as they were; the error is the lookup error
\* when the conversion of every earlier name succeeds.
C13_UnmappedSetFailsEarly ==
    [][ /\ UnmappedLookupFails
        /\ ( /\ last'.op = "set"
             /\ Unmapped(last'.values) # {} )
           => /\ ~last'.ok
              /\ last'.stage \in {"tao", "build"}
              /\ last'.sent = << >>
              /\ tao' = tao /\ state' = state
              /\ (has_tao /\ ReachesUnmapped(last'.values))
                     => last'.err = "KeyError" ]_vars

C13_Witness ==
    /\ has_tao
    /\ last.op = "set" /\ ~last.ok /\ last.err = "KeyError"
    /\ last.stage = "build"
    /\ Len(last.values) = 2
    /\ last.values[1][1] = QUAD_IN20_511
    /\ last.values[2][1] = UNKNOWN_VAR
    /\ last.sent = << >>
    /\ tao.attribs # InitialAttribs
    /\ tao.lattice_calc_on
    /\ QUAD_IN20_511 \in DOMAIN state
    /\ state[QUAD_IN20_511] # last.values[1][2]

\* the engine rejects the command: the lattice lacks its element or attribute
Rejected(c) == ~TaoCmd(tao, c).ok
\* two set commands on the same attribute of the same element
SameTarget(c, d) == c.ele = d.ele /\ Upper(c.attr) = Upper(d.attr)

\* C14: when the engine rejects the k-th command of the batch, the call
\* raises the engine's error; the engine received the disabling directive and
\* the commands 1..k once each and nothing else, so no later command and no
\* enabling directive; the attributes the later commands name are as before;
\* the recompute flag is disabled when the call ends.  A disabled flag becomes
\* enabled only by a set or reset whose evaluate_tao returned.
C14_RejectedBatch ==
    [][ /\ (last'.op \in {"set", "reset"} /\ last'.stage = "evaluate")
           => \E k \in DOMAIN last'.tao_cmds :
                /\ Rejected(last'.tao_cmds[k])
                /\ \A j \in 1..(k - 1) : ~Rejected(last'.tao_cmds[j])
                /\ ~last'.ok /\ last'.err = "TaoError"
                /\ [ i \in DOMAIN last'.sent |-> last'.sent[i].cmd ]
                     = << LatticeCalcOff >> \o SubSeq(last'.tao_cmds, 1, k)
                /\ \A j \in (k + 1)..Len(last'.tao_cmds) :
                     LET c == last'.tao_cmds[j]
                     IN  ( /\ ~Rejected(c)
                           /\ \A i \in 1..(k - 1) : ~SameTarget(last'.tao_cmds[i], c) )
                         => tao'.attribs[c.ele][Upper(c.attr)]
                              = tao.attribs[c.ele][Upper(c.attr)]
                /\ last'.recalcs = 0
                /\ ~tao'.lattice_calc_on
        /\ (~tao.lattice_calc_on /\ tao'.lattice_calc_on)
           => /\ last'.op \in {"set", "reset"}
              /\ last'.stage \in {"", "refresh"}
              /\ last'.sent[Len(last'.sent)].cmd = LatticeCalcOn ]_vars

C14_Witness ==
    /\ last.op = "set" /\ last.stage = "evaluate"
    /\ Len(last.tao_cmds) = 2
    /\ Len(last.sent) = 2
    /\ last.sent[2].cmd.ele = ELE_QX
    /\ last.tao_cmds[2].ele = ELE_Q1
    /\ tao.attribs[ELE_Q1][B1_GRADIENT] # last.tao_cmds[2].value
    /\ tao.attribs # InitialAttribs
    /\ ~tao.lattice_calc_on

(***************************************************************************)
(* Two callers inside _set on one engine.  A step is one engine call: one  *)
(* directive of evaluate_tao, one command of the batch.  The queries of    *)
(* get_tao_commands and of update_state send no directive and are taken    *)
(* together.  With serialized, a caller holds one lock from the entry of   *)
(* _set to its return or its exception.                                    *)
(***************************************************************************)
\* the value each caller writes
CallerValue(id) == IF id = "A" THEN Rat(1, 2) ELSE Int2Rat(-1)
\* the name lists of the callers' mappings: control names, at least one
CallerNames ==
    { ns \in DistinctSeqs(Range(control_variables), MaxValues) : ns # << >> }
\* what the engine received in one step, with the recompute flag it met
Directive(cmd, r) ==
    [ sent |-> << [cmd |-> cmd, calc_on |-> tao.lattice_calc_on] >>,
      recalcs |-> r.recalc ]
Release(id) == IF lock = id THEN FREE ELSE lock

CallersInit ==
    \E cf \in ControlFiles, f \in OutputFiles, s \in BOOLEAN :
        LET c == import_control_variables(cf)
            o == import_output_variables(f)
        IN  /\ control_variables = c.var_dict
            /\ control_name_to_bmad = c.control_name_to_bmad
            /\ output_file = f
            /\ read_only_variables = o.out_dict
            /\ state = EmptyDict
            /\ initial_state = EmptyDict
            /\ has_tao = TRUE
            /\ tao = InitialTao
            /\ last = NoCall
            /\ callers = [id \in Callers |-> Idle]
            /\ serialized = s
            /\ lock = FREE

\* _set entered without waiting for the lock
CallSet_NoLock(id, ns) ==
    /\ callers[id].pc = "idle"
    /\ \E b \in { get_tao_commands(tao, control_name_to_bmad,
                      [i \in DOMAIN ns |-> << ns[i], CallerValue(id) >>]) } :
         /\ callers' = [callers EXCEPT ![id] =
                IF b.ok THEN [pc |-> "disable", tao_cmds |-> b.tao_cmds] ELSE Idle]
         /\ last' = Call("set", b.ok, b.err, IF b.ok THEN "" ELSE "build", << >>,
                         << >>, EmptyDict, << >>, NoEval)
    /\ UNCHANGED << control_variables, control_name_to_bmad, output_file,
                    read_only_variables, state, initial_state, has_tao, tao,
                    serialized, lock >>

\* _set entered: the lock is taken when the callers serialize, then
\* get_tao_commands builds the batch; its exception ends the call
CallSet(id, ns) ==
    /\ callers[id].pc = "idle"
    /\ serialized => lock = FREE
    /\ \E b \in { get_tao_commands(tao, control_name_to_bmad,
                      [i \in DOMAIN ns |-> << ns[i], CallerValue(id) >>]) } :
         /\ callers' = [callers EXCEPT ![id] =
                IF b.ok THEN [pc |-> "disable", tao_cmds |-> b.tao_cmds] ELSE Idle]
         /\ lock' = IF serialized /\ b.ok THEN id ELSE lock
         /\ last' = Call("set", b.ok, b.err, IF b.ok THEN "" ELSE "build", << >>,
                         << >>, EmptyDict, << >>, NoEval)
    /\ UNCHANGED << control_variables, control_name_to_bmad, output_file,
                    read_only_variables, state, initial_state, has_tao, tao,
                    serialized >>

\* tao.cmd("set global lattice_calc_on = F")
Disable(id) ==
    /\ callers[id].pc = "disable"
    /\ \E r \in { TaoCmd(tao, LatticeCalcOff) } :
         /\ tao' = r.tao
         /\ last' = Call("set", TRUE, "", "", << >>, << >>, EmptyDict, << >>,
                         Directive(LatticeCalcOff, r))
    /\ callers' = [callers EXCEPT ![id].pc =
                      IF callers[id].tao_cmds = << >> THEN "enable" ELSE "command"]
    /\ UNCHANGED << control_variables, control_name_to_bmad, output_file,
                    read_only_variables, state, initial_state, has_tao,
                    serialized, lock >>

\* tao.cmds(tao_cmds), one command: a rejected command ends the call
Command(id) ==
    /\ callers[id].pc = "command"
    /\ \E r \in { TaoCmd(tao, Head(callers[id].tao_cmds)) } :
         /\ tao' = r.tao
         /\ last' = Call("set", r.ok, IF r.ok THEN "" ELSE "TaoError",
                         IF r.ok THEN "" ELSE "evaluate", << >>, << >>, EmptyDict,
                         << >>, Directive(Head(callers[id].tao_cmds), r))
         /\ callers' = [callers EXCEPT ![id] =
                IF ~r.ok THEN Idle
                ELSE [ pc |-> IF Len(callers[id].tao_cmds) = 1
                              THEN "enable" ELSE "command",
                       tao_cmds |-> Tail(callers[id].tao_cmds) ]]
         /\ lock' = IF r.ok THEN lock ELSE Release(id)
    /\ UNCHANGED << control_variables, control_name_to_bmad, output_file,
                    read_only_variables, state, initial_state, has_tao,
                    serialized >>

\* tao.cmd("set global lattice_calc_on = T")
Enable(id) ==
    /\ callers[id].pc = "enable"
    /\ \E r \in { TaoCmd(tao, LatticeCalcOn) } :
         /\ tao' = r.tao
         /\ last' = Call("set", TRUE, "", "", << >>, << >>, EmptyDict, << >>,
                         Directive(LatticeCalcOn, r))
    /\ callers' = [callers EXCEPT ![id].pc = "refresh"]
    /\ UNCHANGED << control_variables, control_name_to_bmad, output_file,
                    read_only_variables, state, initial_state, has_tao,
                    serialized, lock >>

\* self.update_state(), then _set returns or raises
Refresh(id) ==
    /\ callers[id].pc = "refresh"
    /\ \E u \in { update_state(state, tao, control_name_to_bmad,
                               control_variables) } :
         /\ state' = u.state
         /\ last' = Call("set", u.ok, u.err, IF u.ok THEN "" ELSE "refresh", << >>,
                         << >>, EmptyDict, << >>, NoEval)
    /\ callers' = [callers EXCEPT ![id] = Idle]
    /\ lock' = Release(id)
    /\ UNCHANGED << control_variables, control_name_to_bmad, output_file,
                    read_only_variables, initial_state, has_tao, tao, serialized >>

CallersNext ==
    \E id \in Callers :
        \/ \E ns \in CallerNames : CallSet(id, ns)
        \/ Disable(id)
        \/ Command(id)
        \/ Enable(id)
        \/ Refresh(id)

CallersSpec == CallersInit /\ [][CallersNext]_vars

\* a set command reached the engine while the recompute flag was enabled
SetCommandMetEnabledFlag ==
    \E i \in DOMAIN last.sent :
        last.sent[i].cmd.what = "ele" /\ last.sent[i].calc_on

\* C15: when the callers hold one lock around the whole of set, no set
\* command reaches the engine while the recompute flag is enabled, and at
\* most one caller is inside set; without the lock such a state is
\* reachable (C15_Witness).
C15_SerializedSetsKeepBracket ==
    serialized =>
        /\ ~SetCommandMetEnabledFlag
        /\ \A a, b \in Callers :
               (callers[a].pc # "idle" /\ callers[b].pc # "idle") => a = b

\* two callers without the lock: a command of one is executed with the flag
\* enabled, the other having sent its enabling directive already
C15_Witness ==
    /\ ~serialized
    /\ SetCommandMetEnabledFlag
    /\ last.ok
    /\ \E a, b \in Callers :
         /\ a # b
         /\ callers[a].pc \in {"command", "enable"}
         /\ callers[b].pc = "refresh"
====
